---- MODULE Spec2Model ----
(***************************************************************************)
(* Template-driven journal expansion and posting pipeline                  *)
(* (src/enhanced_system/python): the expression compiler to_polars, the    *)
(* expansion engine expand_transactions, stage_to_db, post_to_ledger,      *)
(* update_month_balance and the driver run_pipeline.                       *)
(*                                                                         *)
(* Amounts are integers counted in hundredths of the currency unit: the    *)
(* value 14 stands for 0.14.  Dates are pairs <<month, day>>.              *)
(***************************************************************************)
EXTENDS Integers, Sequences, FiniteSets, TLC

VARIABLES
    \* ---- to_polars, one compilation (expr.py) ----
    expr,          \* the expression string handed to to_polars, a sequence of lexemes
    epc,           \* position inside to_polars
    code,          \* the local `s` / `code` of to_polars
    eres,          \* what to_polars returned or raised
    \* ---- the store (PostgreSQL tables, committed state) ----
    txn_source,    \* public.txn_source_parent
    tplStore,      \* acct.journal_template* tables
    hdrStaging,    \* public.je_header_staging
    lineStaging,   \* public.je_line_staging
    ledgerHdr,     \* public.ledger_entry_header
    ledgerLine,    \* public.ledger_entry_line
    partitions,    \* months whose ledger_entry_line partition exists
    snapshot,      \* public.account_balance_snapshot
    jeSeq,         \* the sequence behind ledger_entry_header.je_id
    \* ---- one driver process (run_month.py) ----
    pc,            \* position of the driver
    period,        \* the (year, month) argument of the running call
    df_txn,        \* run_pipeline's local df_txn
    out,           \* what expand_transactions returned: headers, lines, run_id
    tx,            \* uncommitted writes of the open connection of post_to_ledger
    df_lines,      \* post_to_ledger's local df_lines (the join result)
    calls,         \* number of top-level calls started so far
    uuids,         \* number of uuid4() values drawn so far
    failedAt,      \* stage at which the last call raised, "none" if it did not
    call,          \* the running (or last) top-level call
    \* ---- history, read by the properties only ----
    ledgerAtCall,  \* the committed ledger tables when the running call began
    reposting,     \* TRUE while post_to_ledger runs again on an already posted run
    \* ---- templates.py: one call of load_active_template ----
    request,       \* its arguments txn_type, product_code, channel, txn_date
    loaded,        \* what it gave: nothing yet, a template, or RuntimeError
    \* ---- concurrent callers of post_to_ledger, each with its own connection ----
    workers        \* per worker: position, arguments, uncommitted writes, join result

vars == << expr, epc, code, eres,
           txn_source, tplStore, hdrStaging, lineStaging, ledgerHdr, ledgerLine,
           partitions, snapshot, jeSeq,
           pc, period, df_txn, out, tx, df_lines, calls, uuids, failedAt, call,
           ledgerAtCall, reposting, request, loaded, workers >>

exprVars == << expr, epc, code, eres >>
storeVars == << txn_source, tplStore, hdrStaging, lineStaging, ledgerHdr, ledgerLine,
                partitions, snapshot, jeSeq >>
driverVars == << pc, period, df_txn, out, tx, df_lines, calls, uuids, failedAt, call,
                 ledgerAtCall, reposting >>
tplVars == << request, loaded >>

(***************************************************************************)
(* Bounds                                                                  *)
(***************************************************************************)
MaxLen == 4        \* longest expression string, in lexemes, given to to_polars
MaxTxn == 2        \* most rows of txn_source_parent
MaxCalls == 2      \* most top-level calls (run_pipeline or a repeated post_to_ledger)

\* the months the store knows
Periods == {1, 2}
Days == {1}
Dates == Periods \X Days
GrossAmounts == {0, 10, 14}

RangeOf(s) == {s[i] : i \in DOMAIN s}

Abs(x) == IF x < 0 THEN -x ELSE x

(***************************************************************************)
(* expr.py: to_polars                                                      *)
(*                                                                         *)
(* An expression string is a sequence of lexemes.  A lexeme is one         *)
(* character, or a maximal run of identifier characters (a name) or of     *)
(* digits (a number); two names or numbers are never adjacent, since in    *)
(* the text they would be one run.                                         *)
(***************************************************************************)
Names == {"gross_amount", "nofield", "gt", "print"}
\* the names among them that Python's builtins define: eval(code, {"pl": pl}, {})
\* adds __builtins__ to the globals it is given
Builtins == {"print"}
Numbers == {"1", "0.1"}
Blanks == {" "}
\* single characters of the class [0-9\.\s\+\-\*\/\(\),:_a-zA-Z] other than blanks
AllowedPunct == {".", "+", "-", "*", "/", "(", ")", ",", ":"}
\* characters outside the class
OtherChars == {";", ">"}

Alphabet ==
    {":", "gross_amount", "nofield", "print", "1", "-", "(", ")", " ", ";", ">"}

IsWord(x) == x \in Names \cup Numbers

WellFormed(s) == \A i \in 1..(Len(s) - 1) : ~(IsWord(s[i]) /\ IsWord(s[i + 1]))

ExprStrings ==
    {s \in UNION {[1..n -> Alphabet] : n \in 0..MaxLen} : WellFormed(s)}

\* the columns of df_txn after engine.py:24-28, the df_cols argument
df_cols == {"source_rowid", "txn_type", "product_code", "channel", "bank_value_date",
            "gross_amount", "je_number", "je_date"}

\* str.strip(): leading and trailing whitespace removed
RECURSIVE LStrip(_)
LStrip(s) == IF s # <<>> /\ Head(s) \in Blanks THEN LStrip(Tail(s)) ELSE s

RECURSIVE RStrip(_)
RStrip(s) ==
    IF s # <<>> /\ s[Len(s)] \in Blanks THEN RStrip(SubSeq(s, 1, Len(s) - 1)) ELSE s

strip(s) == RStrip(LStrip(s))

\* one lexeme consists of characters of the class of expr.py:19 only
CharAllowed(x) == x \in Names \cup Numbers \cup Blanks \cup AllowedPunct

\* a mutant: re.search in place of re.fullmatch, one allowed character is enough
fullmatch_as_search(s) == \E i \in DOMAIN s : CharAllowed(s[i])

\* re.fullmatch(r"[0-9\.\s\+\-\*\/\(\),:_a-zA-Z]+", s): one or more characters, all
\* of the class
fullmatch(s) == s # <<>> /\ \A i \in DOMAIN s : CharAllowed(s[i])

HasIllegalChar(s) == \E i \in DOMAIN s : ~CharAllowed(s[i])

\* TOKEN = :name matches at position i: a colon directly followed by a name
TokenAt(s, i) == i < Len(s) /\ s[i] = ":" /\ s[i + 1] \in Names

\* a piece of the text `code`: a lexeme kept as it is, pl.col('name'), or pl.<name>
Lex(x) == [t |-> "lex", v |-> x]
Col(x) == [t |-> "col", v |-> x]

\* a mutant: the test of expr.py:28 left out
UnknownToken_none(s, i) == ""

\* expr.py:23-33, the name of the first token that is no column, or "" when all are
RECURSIVE UnknownToken(_, _)
UnknownToken(s, i) ==
    IF i > Len(s) THEN ""
    ELSE IF TokenAt(s, i)
         THEN IF s[i + 1] \notin df_cols THEN s[i + 1] ELSE UnknownToken(s, i + 2)
         ELSE UnknownToken(s, i + 1)

\* expr.py:23-33, every :name replaced by pl.col('name'), the rest kept
RECURSIVE Substitute(_, _)
Substitute(s, i) ==
    IF i > Len(s) THEN <<>>
    ELSE IF TokenAt(s, i)
         THEN <<Col(s[i + 1])>> \o Substitute(s, i + 2)
         ELSE <<Lex(s[i])>> \o Substitute(s, i + 1)

\* expr.py:36-43, abs( min( max( round( rewritten to attributes of pl
FuncMap(f) ==
    CASE f = "abs" -> "abs"
      [] f = "min" -> "min_horizontal"
      [] f = "max" -> "max_horizontal"
      [] f = "round" -> "round"

MappedFuncs == {"abs", "min", "max", "round"}

MapFunctions(c) ==
    [i \in DOMAIN c |->
        IF /\ c[i].t = "lex"
           /\ c[i].v \in MappedFuncs
           /\ i < Len(c)
           /\ c[i + 1] = Lex("(")
        THEN [t |-> "pl", v |-> FuncMap(c[i].v)]
        ELSE c[i]]

\* the functions the polars module has among those FuncMap names
PolarsFuncs == {"min_horizontal", "max_horizontal"}

\* the value of a number, in hundredths
NumVal(n) == CASE n = "1" -> 100 [] n = "0.1" -> 10

\* the comparison methods of pl.Expr the names of the alphabet can spell
ExprMethods == {"gt"}

(***************************************************************************)
(* eval(code, {"pl": pl}, {}) for the Python expressions the alphabet can  *)
(* spell: numbers, pl.col(..), names, unary and binary + and -,            *)
(* parentheses, the empty tuple (), calls and pl.<function>(args).  The    *)
(* result is a value of type "expr" (a pl.Expr), "int", "tuple", "builtin" *)
(* (a builtin function) or "none" (what the call of one returns), or "err" *)
(* for every exception (SyntaxError, NameError, TypeError,                 *)
(* AttributeError).                                                        *)
(***************************************************************************)
NoAst == [op |-> "none"]
PyErr == [ty |-> "err", ast |-> NoAst, pos |-> 0]

SkipBlanks(c) == SelectSeq(c, LAMBDA x : ~(x.t = "lex" /\ x.v \in Blanks))

Tok(T, i) == IF i <= Len(T) THEN T[i] ELSE [t |-> "end", v |-> ""]

BinType(a, b) ==
    IF a = "int" /\ b = "int" THEN "int"
    ELSE IF a \in {"int", "expr"} /\ b \in {"int", "expr"} THEN "expr"
    ELSE "err"

RECURSIVE ParseArith(_, _)
RECURSIVE ParseArithRest(_, _)
RECURSIVE ParseUnary(_, _)
RECURSIVE ParsePostfix(_, _)
RECURSIVE ParsePostfixRest(_, _)
RECURSIVE ParseAtom(_, _)
RECURSIVE ParseArgs(_, _, _)

\* NAME | NUMBER | pl.col('x') | pl.f(args) | () | (expr)
ParseAtom(T, i) ==
    LET tok == Tok(T, i) IN
    CASE tok.t = "col" ->
            [ty |-> "expr", ast |-> [op |-> "col", name |-> tok.v], pos |-> i + 1]
      [] tok.t = "lex" /\ tok.v \in Builtins ->
            [ty |-> "builtin", ast |-> [op |-> "builtin", name |-> tok.v], pos |-> i + 1]
      [] tok.t = "lex" /\ tok.v \in Numbers ->
            [ty |-> "int", ast |-> [op |-> "num", val |-> NumVal(tok.v)], pos |-> i + 1]
      [] tok.t = "pl" ->
            \* pl.abs and pl.round do not exist: AttributeError
            IF tok.v \notin PolarsFuncs \/ Tok(T, i + 1) # Lex("(") THEN PyErr
            ELSE LET a == ParseArgs(T, i + 2, <<>>) IN
                 IF a.ty = "err" THEN PyErr
                 ELSE [ty |-> "expr",
                       ast |-> [op |-> tok.v, args |-> a.ast],
                       pos |-> a.pos]
      [] tok = Lex("(") ->
            IF Tok(T, i + 1) = Lex(")")
            THEN [ty |-> "tuple", ast |-> NoAst, pos |-> i + 2]
            ELSE LET e == ParseArith(T, i + 1) IN
                 IF e.ty # "err" /\ Tok(T, e.pos) = Lex(")")
                 THEN [e EXCEPT !.pos = e.pos + 1]
                 ELSE PyErr
      \* any other bare name is a NameError, anything else a SyntaxError
      [] OTHER -> PyErr

\* one or more arguments up to the closing parenthesis
ParseArgs(T, i, acc) ==
    LET e == ParseArith(T, i) IN
    IF e.ty \notin {"int", "expr"} THEN PyErr
    ELSE IF Tok(T, e.pos) = Lex(")")
         THEN [ty |-> "args", ast |-> Append(acc, e.ast), pos |-> e.pos + 1]
         ELSE IF Tok(T, e.pos) = Lex(",")
              THEN ParseArgs(T, e.pos + 1, Append(acc, e.ast))
              ELSE PyErr

\* atom, followed by calls of it or by .method(arg).  A builtin function is called
\* and returns None; no pl.Expr, int, tuple or None is callable (TypeError); only a
\* pl.Expr has the methods, and a name that is no attribute of it is an
\* AttributeError.
ParsePostfixRest(T, a) ==
    IF a.ty = "err" THEN PyErr
    ELSE IF Tok(T, a.pos) = Lex("(")
    THEN IF a.ty # "builtin" THEN PyErr
         ELSE IF Tok(T, a.pos + 1) = Lex(")")
         THEN ParsePostfixRest(T, [ty |-> "none",
                                   ast |-> [op |-> "call", name |-> a.ast.name],
                                   pos |-> a.pos + 2])
         ELSE LET g == ParseArgs(T, a.pos + 1, <<>>) IN
              IF g.ty = "err" THEN PyErr
              ELSE ParsePostfixRest(T, [ty |-> "none",
                                        ast |-> [op |-> "call", name |-> a.ast.name],
                                        pos |-> g.pos])
    ELSE IF Tok(T, a.pos) # Lex(".") THEN a
    ELSE LET m == Tok(T, a.pos + 1) IN
         IF /\ a.ty = "expr"
            /\ m.t = "lex"
            /\ m.v \in ExprMethods
            /\ Tok(T, a.pos + 2) = Lex("(")
         THEN LET g == ParseArgs(T, a.pos + 3, <<>>) IN
              IF g.ty = "err" \/ Len(g.ast) # 1 THEN PyErr
              ELSE ParsePostfixRest(T,
                     [ty |-> "expr",
                      ast |-> [op |-> m.v, a |-> a.ast, b |-> g.ast[1]],
                      pos |-> g.pos])
         ELSE PyErr

ParsePostfix(T, i) == ParsePostfixRest(T, ParseAtom(T, i))

ParseUnary(T, i) ==
    LET tok == Tok(T, i) IN
    IF tok \in {Lex("-"), Lex("+")}
    THEN LET u == ParseUnary(T, i + 1) IN
         IF u.ty \notin {"int", "expr"} THEN PyErr
         ELSE IF tok = Lex("+") THEN u
         ELSE [ty |-> u.ty, ast |-> [op |-> "neg", a |-> u.ast], pos |-> u.pos]
    ELSE ParsePostfix(T, i)

ParseArithRest(T, left) ==
    LET tok == Tok(T, left.pos) IN
    IF left.ty = "err" \/ tok \notin {Lex("-"), Lex("+")} THEN left
    ELSE LET r == ParseUnary(T, left.pos + 1)
             ty == BinType(left.ty, r.ty)
         IN  IF ty = "err" THEN PyErr
             ELSE ParseArithRest(T,
                    [ty |-> ty,
                     ast |-> [op |-> IF tok = Lex("-") THEN "sub" ELSE "add",
                              a |-> left.ast, b |-> r.ast],
                     pos |-> r.pos])

ParseArith(T, i) == ParseArithRest(T, ParseUnary(T, i))

\* expr.py:46-50: the value of eval, or ValueError for any exception
eval(c) ==
    LET T == SkipBlanks(c)
        r == ParseArith(T, 1)
    IN  IF r.ty # "err" /\ r.pos = Len(T) + 1
        THEN [status |-> "ok", ty |-> r.ty, ast |-> r.ast]
        ELSE [status |-> "ValueError", ty |-> "err", ast |-> NoAst]

Raised(kind) == [status |-> kind, ty |-> "err", ast |-> NoAst]

\* expr.py:14-50, to_polars(expr, df_cols) as one function
to_polars(e) ==
    LET s == strip(e) IN
    IF ~fullmatch(s) THEN Raised("ValueError")
    ELSE IF UnknownToken(s, 1) # "" THEN Raised("KeyError")
    ELSE eval(MapFunctions(Substitute(s, 1)))

(***************************************************************************)
(* to_polars step by step, for one expression string                       *)
(***************************************************************************)
NoResult == [status |-> "none", ty |-> "err", ast |-> NoAst]

\* expr.py:17-20
CheckChars ==
    /\ epc = "start"
    /\ IF fullmatch(strip(expr))
       THEN /\ epc' = "substitute"
            /\ code' = [i \in DOMAIN strip(expr) |-> Lex(strip(expr)[i])]
            /\ eres' = eres
       ELSE /\ epc' = "raised"
            /\ eres' = Raised("ValueError")
            /\ code' = code
    /\ UNCHANGED << expr, workers, tplVars, storeVars, driverVars >>

\* expr.py:23-33
SubstituteTokens ==
    /\ epc = "substitute"
    /\ LET s == [i \in DOMAIN code |-> code[i].v] IN
       IF UnknownToken(s, 1) # ""
       THEN /\ epc' = "raised"
            /\ eres' = Raised("KeyError")
            /\ code' = code
       ELSE /\ epc' = "eval"
            /\ code' = Substitute(s, 1)
            /\ eres' = eres
    /\ UNCHANGED << expr, workers, tplVars, storeVars, driverVars >>

\* expr.py:36-50
EvalCode ==
    /\ epc = "eval"
    /\ LET r == eval(MapFunctions(code)) IN
       /\ eres' = r
       /\ epc' = IF r.status = "ok" THEN "returned" ELSE "raised"
       /\ code' = MapFunctions(code)
    /\ UNCHANGED << expr, workers, tplVars, storeVars, driverVars >>

(***************************************************************************)
(* The transaction source and the template store                           *)
(***************************************************************************)
\* dates compare by month, then day
DateLE(a, b) == a[1] < b[1] \/ (a[1] = b[1] /\ a[2] <= b[2])
DateLT(a, b) == a[1] < b[1] \/ (a[1] = b[1] /\ a[2] < b[2])

TxnTypes == {"PREMIUM_RECEIPT"}
Products == {"LIFE01"}
Channels == {"AGENCY"}

\* a row of public.txn_source_parent; txn_month is the month of bank_value_date
\* (seed_txn_source.py:30)
TxnRow(i, d, g) ==
    [source_rowid |-> i, txn_type |-> "PREMIUM_RECEIPT", product_code |-> "LIFE01",
     channel |-> "AGENCY", bank_value_date |-> d, txn_month |-> d[1],
     gross_amount |-> g]

\* <<date, amount>> pairs in the order in which a table numbers its rows
RowOrder(a, b) ==
    \/ DateLT(a[1], b[1])
    \/ a[1] = b[1] /\ a[2] <= b[2]

\* the tables of at most MaxTxn rows, source_rowid unique; the rows are numbered by
\* date and amount, which every table is up to the naming of its rows
TxnTables ==
    UNION {{ {TxnRow(i, f[i][1], f[i][2]) : i \in 1..n} :
                f \in {g \in [1..n -> Dates \X GrossAmounts] :
                          \A i \in 1..(n - 1) : RowOrder(g[i], g[i + 1])}} :
           n \in 0..MaxTxn}

NULL == "NULL"

G == <<":", "gross_amount">>

TplLine(no, side, account, e, rnd) ==
    [line_no |-> no, side |-> side, account_code |-> account, fund_code |-> "GEN",
     amount_expr |-> e, amount_round |-> rnd, is_active |-> TRUE]

Template(tcode, lines, conds, control) ==
    [template_code |-> tcode, template_version |-> "v1",
     txn_type |-> "PREMIUM_RECEIPT", status |-> "ACTIVE",
     effective_date |-> <<1, 1>>, expiry_date |-> <<3, 1>>,
     matches |-> {[match_id |-> 1, product_code |-> NULL, channel |-> NULL,
                   priority |-> 1]},
     lines |-> lines, conds |-> conds, control |-> control]

Control(req, tol) == [require_balanced |-> req, tolerance_amount |-> tol]

\* debit and credit the gross amount, no control row
T_BALANCED ==
    Template("BAL", {TplLine(1, "DR", "CASH", G, 2), TplLine(2, "CR", "PREM", G, 2)},
             {}, {})

\* the debit is rounded to one decimal, the credit to two
RoundLines == {TplLine(1, "DR", "CASH", G, 1), TplLine(2, "CR", "PREM", G, 2)}
T_ROUND == Template("RND", RoundLines, {}, {})
T_TOL == Template("TOL", RoundLines, {}, {Control(TRUE, 4)})
T_NOCHECK == Template("NOCHK", RoundLines, {}, {Control(FALSE, 0)})

\* an amount expression with a character outside the class
T_ILLEGAL ==
    Template("ILL", {TplLine(1, "DR", "CASH", G, 2),
                     TplLine(2, "CR", "PREM", <<":", "gross_amount", ";">>, 2)},
             {}, {})

\* condition expressions: gross_amount > 0.1, > -1 (always true here), > 1 (never)
Large == <<":", "gross_amount", ".", "gt", "(", "0.1", ")">>
Above == <<":", "gross_amount", ".", "gt", "(", "-", "1", ")">>
Huge == <<":", "gross_amount", ".", "gt", "(", "1", ")">>

Cond(no, name, e) == [line_no |-> no, cond_name |-> name, cond_expr |-> e]

\* lines 1 and 2 without a condition; a fee pair enabled where gross_amount > 0.1,
\* its credit under a second condition as well; an unpaired debit that is never
\* enabled
T_COND ==
    Template("CND", {TplLine(1, "DR", "CASH", G, 2), TplLine(2, "CR", "PREM", G, 2),
                     TplLine(3, "DR", "FEE", G, 2), TplLine(4, "CR", "FEEINC", G, 2),
                     TplLine(5, "DR", "SUSP", G, 2)},
             {Cond(3, "large", Large), Cond(4, "large", Large), Cond(4, "above", Above),
              Cond(5, "huge", Huge)},
             {})

\* both lines rounded to whole units: every amount below 0.5 rounds to zero
T_ZERO ==
    Template("ZERO", {TplLine(1, "DR", "CASH", G, 0), TplLine(2, "CR", "PREM", G, 0)},
             {}, {})

\* a template that expires with the first month
T_OLD == [T_BALANCED EXCEPT !.template_code = "OLD", !.expiry_date = <<2, 1>>]

\* the template that takes its place from the second month on
T_NEW == [T_BALANCED EXCEPT !.template_code = "NEW", !.effective_date = <<2, 1>>]

Inactive(l) == [l EXCEPT !.is_active = FALSE]

\* no line is active
T_INACTIVE ==
    Template("OFF", {Inactive(TplLine(1, "DR", "CASH", G, 2)),
                     Inactive(TplLine(2, "CR", "PREM", G, 2))},
             {}, {})

\* every line under a condition that no transaction meets
T_NEVER ==
    Template("NEVER", {TplLine(1, "DR", "CASH", G, 2), TplLine(2, "CR", "PREM", G, 2)},
             {Cond(1, "huge", Huge), Cond(2, "huge", Huge)}, {})

\* a debit line alone, with a tolerance of 0.10
T_ONESIDE == Template("ONE", {TplLine(1, "DR", "CASH", G, 2)}, {}, {Control(TRUE, 10)})

TemplateStores ==
    {{T_BALANCED}, {T_ROUND}, {T_TOL}, {T_NOCHECK}, {T_ILLEGAL}, {T_COND}, {T_ZERO},
     {T_OLD}, {T_OLD, T_NEW}, {T_INACTIVE}, {T_NEVER}, {T_ONESIDE}}

\* a mutant: expiry_date >= txn_date, the last day included
Qualifying_expiry_inclusive(store, txn_type, product_code, channel, txn_date) ==
    {tm \in UNION {{<<t, m>> : m \in t.matches} : t \in store} :
        /\ tm[1].txn_type = txn_type
        /\ tm[1].status = "ACTIVE"
        /\ DateLE(tm[1].effective_date, txn_date)
        /\ DateLE(txn_date, tm[1].expiry_date)
        /\ (tm[2].product_code = product_code \/ tm[2].product_code = NULL)
        /\ (tm[2].channel = channel \/ tm[2].channel = NULL)}

\* a mutant: the validity dates not tested
Qualifying_undated(store, txn_type, product_code, channel, txn_date) ==
    {tm \in UNION {{<<t, m>> : m \in t.matches} : t \in store} :
        /\ tm[1].txn_type = txn_type
        /\ tm[1].status = "ACTIVE"
        /\ (tm[2].product_code = product_code \/ tm[2].product_code = NULL)
        /\ (tm[2].channel = channel \/ tm[2].channel = NULL)}

\* templates.py:5-15, the rows of the join that pass the WHERE clause
Qualifying(store, txn_type, product_code, channel, txn_date) ==
    {tm \in UNION {{<<t, m>> : m \in t.matches} : t \in store} :
        /\ tm[1].txn_type = txn_type
        /\ tm[1].status = "ACTIVE"
        /\ DateLE(tm[1].effective_date, txn_date)
        /\ DateLT(txn_date, tm[1].expiry_date)
        /\ (tm[2].product_code = product_code \/ tm[2].product_code = NULL)
        /\ (tm[2].channel = channel \/ tm[2].channel = NULL)}

NullInt(x) == IF x = NULL THEN 1 ELSE 0

\* a mutant: ORDER BY m.priority ASC alone
OrderBefore_priority_only(a, b) == a.priority < b.priority

\* ORDER BY m.priority ASC, (m.product_code IS NULL)::int, (m.channel IS NULL)::int
OrderBefore(a, b) ==
    \/ a.priority < b.priority
    \/ /\ a.priority = b.priority
       /\ \/ NullInt(a.product_code) < NullInt(b.product_code)
          \/ /\ NullInt(a.product_code) = NullInt(b.product_code)
             /\ NullInt(a.channel) < NullInt(b.channel)

\* the default control of templates.py:57
DefaultTolerance == 1

\* templates.py:4-59, the templates LIMIT 1 can return (none: RuntimeError); rows
\* that tie in the ORDER BY come in either order
load_active_template(store, txn_type, product_code, channel, txn_date) ==
    LET Q == Qualifying(store, txn_type, product_code, channel, txn_date) IN
    {[template_code |-> tm[1].template_code,
      template_version |-> tm[1].template_version,
      lines |-> tm[1].lines,
      conds |-> tm[1].conds,
      control |-> IF tm[1].control = {} THEN Control(TRUE, DefaultTolerance)
                  ELSE CHOOSE c \in tm[1].control : TRUE] :
        tm \in {x \in Q : \A y \in Q : ~OrderBefore(y[2], x[2])}}

NotLoaded == [status |-> "none", template_code |-> "", template_version |-> ""]

\* templates.py:4-59, one call with the arguments of request
LoadTemplate ==
    /\ loaded = NotLoaded
    /\ request # <<>>
    /\ LET tpls == load_active_template(tplStore, request.txn_type, request.product_code,
                                        request.channel, request.txn_date)
       IN  IF tpls = {}
           THEN loaded' = [status |-> "RuntimeError", template_code |-> "",
                           template_version |-> ""]
           ELSE \E tpl \in tpls :
                   loaded' = [status |-> "ok", template_code |-> tpl.template_code,
                              template_version |-> tpl.template_version]
    /\ UNCHANGED << request, workers, exprVars, storeVars, driverVars >>

(***************************************************************************)
(* engine.py: expand_transactions                                          *)
(***************************************************************************)
NumericCols == {"gross_amount"}

\* the amount and condition expressions of the templates, and what to_polars
\* gives for each at engine.py:47, 56 and 77
TemplateExprs ==
    UNION {UNION {{l.amount_expr : l \in t.lines} \cup {c.cond_expr : c \in t.conds} :
                    t \in store} : store \in TemplateStores}

Compiled == [e \in TemplateExprs |-> to_polars(e)]

\* the type of the column a compiled expression evaluates to
RECURSIVE AstKind(_)
RECURSIVE AllNum(_)
AllNum(args) == args = <<>> \/ (AstKind(Head(args)) = "num" /\ AllNum(Tail(args)))
AstKind(a) ==
    CASE a.op = "col" -> IF a.name \in NumericCols THEN "num" ELSE "other"
      [] a.op = "num" -> "num"
      [] a.op = "neg" -> IF AstKind(a.a) = "num" THEN "num" ELSE "bad"
      [] a.op \in {"add", "sub"} ->
            IF AstKind(a.a) = "num" /\ AstKind(a.b) = "num" THEN "num" ELSE "bad"
      [] a.op = "gt" ->
            IF AstKind(a.a) = "num" /\ AstKind(a.b) = "num" THEN "bool" ELSE "bad"
      [] a.op \in PolarsFuncs -> IF AllNum(a.args) THEN "num" ELSE "bad"
      [] OTHER -> "bad"

Min2(x, y) == IF x <= y THEN x ELSE y
Max2(x, y) == IF x >= y THEN x ELSE y

\* the value of a numeric expression on one row
RECURSIVE EvalNum(_, _)
RECURSIVE EvalFold(_, _, _)
EvalFold(op, args, r) ==
    IF Len(args) = 1 THEN EvalNum(args[1], r)
    ELSE IF op = "min_horizontal"
         THEN Min2(EvalNum(args[1], r), EvalFold(op, Tail(args), r))
         ELSE Max2(EvalNum(args[1], r), EvalFold(op, Tail(args), r))
EvalNum(a, r) ==
    CASE a.op = "col" -> r[a.name]
      [] a.op = "num" -> a.val
      [] a.op = "neg" -> 0 - EvalNum(a.a, r)
      [] a.op = "add" -> EvalNum(a.a, r) + EvalNum(a.b, r)
      [] a.op = "sub" -> EvalNum(a.a, r) - EvalNum(a.b, r)
      [] a.op \in PolarsFuncs -> EvalFold(a.op, a.args, r)

\* the value of a boolean expression on one row
EvalBool(a, r) == EvalNum(a.a, r) > EvalNum(a.b, r)

\* Expr.round(decimals) on hundredths, ties away from zero
Quantum(decimals) == IF decimals >= 2 THEN 1 ELSE IF decimals = 1 THEN 10 ELSE 100

RoundTo(x, decimals) ==
    LET q == Quantum(decimals)
        up == ((Abs(x) * 2 + q) \div (2 * q)) * q
    IN  IF x < 0 THEN 0 - up ELSE up

\* a mutant: the format "%d" in place of "%Y%m"
strftime_d(d) == d[2]

\* engine.py:25, strftime("%Y%m")
strftime_Ym(d) == d[1]

\* a mutant: a header number that differs from run to run

je_number_with_run(r, run_id) == <<"JE", strftime_Ym(r.bank_value_date) + run_id, r.source_rowid>>

\* engine.py:23-28, "JE-" + YYYYMM + "-" + source_rowid
je_number(r, run_id) == <<"JE", strftime_Ym(r.bank_value_date), r.source_rowid>>

\* engine.py:30-40
Header(r, tpl, run_id) ==
    [je_number |-> je_number(r, run_id), je_date |-> r.bank_value_date,
     source_rowid |-> r.source_rowid,
     template_code |-> tpl.template_code, template_version |-> tpl.template_version,
     run_id |-> run_id]

CondsOf(tpl, l) == {c \in tpl.conds : c.line_no = l.line_no}

\* engine.py:47, 56, 69, 77, 84: both to_polars calls return a pl.Expr, the amount
\* a numeric and each condition a boolean one; otherwise an exception leaves
\* expand_transactions
LineCompiles(tpl, l) ==
    /\ Compiled[l.amount_expr].status = "ok"
    /\ Compiled[l.amount_expr].ty = "expr"
    /\ AstKind(Compiled[l.amount_expr].ast) = "num"
    /\ \A c \in CondsOf(tpl, l) :
            /\ Compiled[c.cond_expr].status = "ok"
            /\ Compiled[c.cond_expr].ty = "expr"
            /\ AstKind(Compiled[c.cond_expr].ast) = "bool"

\* a mutant: the filter of engine.py:81 left out
LineEnabled_ignored(tpl, l, r) == TRUE

\* a mutant: the conditions combined with | in place of &
LineEnabled_any(tpl, l, r) ==
    \E c \in CondsOf(tpl, l) : EvalBool(Compiled[c.cond_expr].ast, r)

\* engine.py:73-81, the AND of the line's conditions on one row
LineEnabled(tpl, l, r) ==
    \A c \in CondsOf(tpl, l) : EvalBool(Compiled[c.cond_expr].ast, r)

\* engine.py:84
LineAmount(l, r) == RoundTo(EvalNum(Compiled[l.amount_expr].ast, r), l.amount_round)

\* a mutant: the zero filter of engine.py:85 before the rounding of engine.py:84
KeepLine_unrounded(l, r) == EvalNum(Compiled[l.amount_expr].ast, r) # 0

\* engine.py:85
KeepLine(l, r) == LineAmount(l, r) # 0

\* a mutant: a run_id of its own for the lines of each template line
Line_own_run(l, r, tpl, run_id) ==
    [je_number |-> je_number(r, run_id), line_no |-> l.line_no, side |-> l.side,
     account_code |-> l.account_code, fund |-> l.fund_code,
     amount |-> LineAmount(l, r), je_date |-> r.bank_value_date,
     template_code |-> tpl.template_code, template_version |-> tpl.template_version,
     run_id |-> run_id * 10 + l.line_no]

\* engine.py:63-94
Line(l, r, tpl, run_id) ==
    [je_number |-> je_number(r, run_id), line_no |-> l.line_no, side |-> l.side,
     account_code |-> l.account_code, fund |-> l.fund_code,
     amount |-> LineAmount(l, r), je_date |-> r.bank_value_date,
     template_code |-> tpl.template_code, template_version |-> tpl.template_version,
     run_id |-> run_id]

RECURSIVE SumAmount(_)
SumAmount(S) ==
    IF S = {} THEN 0
    ELSE LET x == CHOOSE y \in S : TRUE IN x.amount + SumAmount(S \ {x})

\* engine.py:100-107, DR minus CR of one journal, a missing side counting 0
Diff(lines, je) ==
    SumAmount({x \in lines : x.je_number = je /\ x.side = "DR"})
      - SumAmount({x \in lines : x.je_number = je /\ x.side = "CR"})

\* a mutant: min() in place of max()
MaxUnbalance_min(lines) ==
    LET D == {Abs(Diff(lines, je)) : je \in {x.je_number : x \in lines}} IN
    CHOOSE d \in D : \A e \in D : d <= e

\* engine.py:108
MaxUnbalance(lines) ==
    LET D == {Abs(Diff(lines, je)) : je \in {x.je_number : x \in lines}} IN
    CHOOSE d \in D : \A e \in D : e <= d

\* a mutant: the largest signed difference, abs() forgotten
Unbalanced_signed(lines, ctrl) ==
    \E je \in {x.je_number : x \in lines} : Diff(lines, je) > ctrl.tolerance_amount

\* engine.py:109
Unbalanced(lines, ctrl) == MaxUnbalance(lines) > ctrl.tolerance_amount

\* resolved: load_active_template was called (engine.py:21); every exception of
\* expand_transactions is raised there or later
ExpandRaised(run_id, why) ==
    [status |-> "raised", error |-> why, hcols |-> FALSE, lcols |-> FALSE,
     headers |-> {}, lines |-> {}, run_id |-> run_id, resolved |-> why # "none"]

\* hcols, lcols: the headers frame, the lines frame has its columns (pl.DataFrame()
\* has none)
ExpandOk(headers, lines, run_id, hcols, lcols) ==
    [status |-> "ok", error |-> "none", hcols |-> hcols, lcols |-> lcols,
     headers |-> headers, lines |-> lines, run_id |-> run_id, resolved |-> TRUE]

\* a mutant: engine.py:16-17 left out, row(0) of engine.py:20 raises on the empty
\* frame
ExpandEmpty_unguarded(run_id) == ExpandRaised(run_id, "no row")

\* engine.py:16-17: two frames without columns and the run_id, before any call of
\* load_active_template
ExpandEmpty(run_id) ==
    [status |-> "ok", error |-> "none", hcols |-> FALSE, lcols |-> FALSE,
     headers |-> {}, lines |-> {}, run_id |-> run_id, resolved |-> FALSE]

\* engine.py:30-112 with the template resolved
ExpandWith(df, tpl, run_id) ==
    LET active == {l \in tpl.lines : l.is_active}
        headers == {Header(r, tpl, run_id) : r \in df}
        lines == {Line(p[1], p[2], tpl, run_id) :
                    p \in {q \in active \X df :
                             LineEnabled(tpl, q[1], q[2]) /\ KeepLine(q[1], q[2])}}
        ctrl == tpl.control
    IN  IF \E l \in active : ~LineCompiles(tpl, l)
        THEN {ExpandRaised(run_id, "compile")}
        ELSE IF active = {}
        \* engine.py:88-94 on an empty frame: the literals give a frame without
        \* je_number, of one row or of none
        THEN IF ctrl.require_balanced
             THEN {ExpandRaised(run_id, "columns"), ExpandOk(headers, {}, run_id, TRUE, FALSE)}
             ELSE {ExpandOk(headers, {}, run_id, TRUE, FALSE)}
        ELSE IF ctrl.require_balanced /\ lines # {}
        THEN IF {"DR", "CR"} \subseteq {x.side : x \in lines}
             THEN IF Unbalanced(lines, ctrl)
                  THEN {ExpandRaised(run_id, "unbalanced")}
                  ELSE {ExpandOk(headers, lines, run_id, TRUE, TRUE)}
             \* engine.py:105: the pivot has no column for a side without lines
             ELSE {ExpandRaised(run_id, "columns")}
        ELSE {ExpandOk(headers, lines, run_id, TRUE, TRUE)}

\* engine.py:13-112: the results expand_transactions can give for the batch df
expand_transactions(df, store, run_id) ==
    IF df = {} THEN {ExpandEmpty(run_id)}
    ELSE UNION {
        LET tpls == load_active_template(store, any_row.txn_type, any_row.product_code,
                                         any_row.channel, any_row.bank_value_date)
        IN  IF tpls = {} THEN {ExpandRaised(run_id, "no template")}
            ELSE UNION {ExpandWith(df, tpl, run_id) : tpl \in tpls}
        : any_row \in df}

(***************************************************************************)
(* The store and the driver                                                *)
(***************************************************************************)
NoTx == [hdrs |-> {}, lines |-> {}, parts |-> {}, marks |-> {}]
NoOut == ExpandRaised(0, "none")

\* date(year, month, 1) and start_date + relativedelta(months=1)
start_date(m) == <<m, 1>>
end_date(m) == <<m + 1, 1>>

InPeriod(d, m) == DateLE(start_date(m), d) /\ DateLT(d, end_date(m))

Terminated == pc \in {"idle", "failed", "done"}
PostSteps == {"post_headers", "post_map", "post_partition", "post_lines", "post_mark"}

\* the stage of run_pipeline a position belongs to
StageOf(p) == IF p \in PostSteps THEN "post" ELSE p

\* an exception leaves the with block of a connection: db.py:5-8 rolls back
Raise(step) ==
    /\ tx' = NoTx
    /\ df_lines' = {}
    /\ pc' = "failed"
    /\ failedAt' = StageOf(step)

\* run_month.py:14-29, run_pipeline(year, month) up to the loaded frame
load_txn_for_month(m) ==
    /\ Terminated
    /\ calls < MaxCalls
    /\ calls' = calls + 1
    /\ call' = "run_pipeline"
    /\ period' = m
    /\ df_txn' = {r \in txn_source : r.txn_month = m}
    /\ pc' = "expand"
    /\ out' = NoOut
    /\ failedAt' = "none"
    /\ ledgerAtCall' = <<ledgerHdr, ledgerLine>>
    /\ reposting' = FALSE
    /\ UNCHANGED << workers, tplVars, exprVars, storeVars, tx, df_lines, uuids >>

\* a mutant: the exception of expand_transactions swallowed, the run goes on
Expand_unchecked ==
    /\ pc = "expand"
    /\ uuids' = uuids + 1
    /\ \E res \in expand_transactions(df_txn, tplStore, uuids + 1) :
          /\ out' = res
          /\ pc' = "stage"
          /\ failedAt' = failedAt
    /\ UNCHANGED << workers, tplVars, exprVars, storeVars, period, df_txn, tx, df_lines, calls, call,
                    ledgerAtCall, reposting >>

\* run_month.py:31
Expand ==
    /\ pc = "expand"
    /\ uuids' = uuids + 1
    /\ \E res \in expand_transactions(df_txn, tplStore, uuids + 1) :
          /\ out' = res
          /\ IF res.status = "ok"
             THEN pc' = "stage" /\ failedAt' = failedAt
             ELSE pc' = "failed" /\ failedAt' = "expand"
    /\ UNCHANGED << workers, tplVars, exprVars, storeVars, period, df_txn, tx, df_lines, calls, call,
                    ledgerAtCall, reposting >>

Staged(row) ==
    [k \in DOMAIN row \cup {"posted"} |-> IF k = "posted" THEN FALSE ELSE row[k]]

\* staging.py:4-13, one connection: both COPYs commit together.  select raises on
\* a frame without the columns.  copy_from_polars (db.py:10-19) is taken by what it
\* is written to do: the rows of the frame are appended to the table.
stage_to_db ==
    /\ pc = "stage"
    /\ IF out.hcols /\ out.lcols
       THEN /\ hdrStaging' = hdrStaging \cup {Staged(h) : h \in out.headers}
            /\ lineStaging' = lineStaging \cup {Staged(l) : l \in out.lines}
            /\ pc' = "post_headers"
            /\ failedAt' = failedAt
       ELSE /\ pc' = "failed"
            /\ failedAt' = "stage"
            /\ UNCHANGED << hdrStaging, lineStaging >>
    /\ UNCHANGED << workers, tplVars, exprVars, txn_source, tplStore, ledgerHdr, ledgerLine, partitions,
                    snapshot, jeSeq, period, df_txn, out, tx, df_lines, calls, uuids,
                    call, ledgerAtCall, reposting >>

\* a mutant: db.py:7 with an autocommit connection, what was written stays
ConnectionFails_autocommit ==
    /\ pc \in PostSteps \cup {"stage"}
    /\ ledgerHdr' = ledgerHdr \cup tx.hdrs
    /\ ledgerLine' = ledgerLine \cup tx.lines
    /\ partitions' = partitions \cup tx.parts
    /\ Raise(pc)
    /\ UNCHANGED << workers, tplVars, exprVars, txn_source, tplStore, hdrStaging, lineStaging, snapshot,
                    jeSeq, period, df_txn, out, calls, uuids,
                    call, ledgerAtCall, reposting >>

\* the connection breaks, or a statement fails, in stage_to_db or post_to_ledger:
\* db.py:5-8 rolls the connection's transaction back; the sequence keeps its value
ConnectionFails ==
    /\ pc \in PostSteps \cup {"stage"}
    /\ Raise(pc)
    /\ UNCHANGED << workers, tplVars, exprVars, storeVars, period, df_txn, out, calls, uuids,
                    call, ledgerAtCall, reposting >>

\* a mutant: ledger_entry_header without the constraint
UniqueViolation_none(new, old) == FALSE

\* the uniqueness constraint of ledger_entry_header on the header number and the
\* template identity
UniqueViolation(new, old) ==
    \E h \in new, g \in old :
        /\ h.je_number = g.je_number
        /\ h.template_code = g.template_code
        /\ h.template_version = g.template_version

\* je_id of the rows of one COPY, drawn from the sequence in the order of the rows
\* (taken by source_rowid)
WithJeId(headers, seq) ==
    {[k \in DOMAIN h \cup {"je_id"} |->
        IF k = "je_id"
        THEN seq + Cardinality({g \in headers : g.source_rowid <= h.source_rowid})
        ELSE h[k]] : h \in headers}

\* posting.py:10-14, step 1: COPY the headers into ledger_entry_header
PostHeaders ==
    /\ pc = "post_headers"
    /\ IF ~out.hcols \/ UniqueViolation(out.headers, ledgerHdr)
       THEN Raise("post_headers") /\ jeSeq' = jeSeq
       ELSE /\ tx' = [tx EXCEPT !.hdrs = WithJeId(out.headers, jeSeq)]
            /\ jeSeq' = jeSeq + Cardinality(out.headers)
            /\ pc' = "post_map"
            /\ UNCHANGED << failedAt, df_lines >>
    /\ UNCHANGED << workers, tplVars, exprVars, txn_source, tplStore, hdrStaging, lineStaging, ledgerHdr,
                    ledgerLine, partitions, snapshot, period, df_txn, out,
                    calls, uuids, call, ledgerAtCall, reposting >>

\* posting.py:17-23, the rows the connection sees: committed ones and its own
df_map(m) == {h \in ledgerHdr \cup tx.hdrs : InPeriod(h.je_date, m)}

\* posting.py:26-30, inner join on je_number
JoinLines(lines, map) ==
    {[je_id |-> h.je_id, line_no |-> l.line_no, side |-> l.side,
      account_code |-> l.account_code, fund |-> l.fund, amount |-> l.amount,
      je_date |-> l.je_date] :
        <<l, h>> \in {q \in lines \X map : q[1].je_number = q[2].je_number}}

\* posting.py:16-30, steps 2 and 3
PostMap ==
    /\ pc = "post_map"
    /\ IF ~out.lcols
       THEN Raise("post_map")
       ELSE /\ df_lines' = JoinLines(out.lines, df_map(period))
            /\ pc' = "post_partition"
            /\ UNCHANGED << tx, failedAt >>
    /\ UNCHANGED << workers, tplVars, exprVars, storeVars, period, df_txn, out, calls, uuids, call,
                    ledgerAtCall, reposting >>

\* public.ensure_ledger_line_partition(start_date): creates the partition of the
\* month of start_date unless it exists
ensure_ledger_line_partition(d) == {d[1]}

\* a mutant: step 4 left out
PostPartition_skipped ==
    /\ pc = "post_partition"
    /\ pc' = "post_lines"
    /\ UNCHANGED << workers, tplVars, exprVars, storeVars, period, df_txn, out, tx, df_lines, calls, uuids,
                    failedAt, call, ledgerAtCall, reposting >>

\* posting.py:32-34, step 4
PostPartition ==
    /\ pc = "post_partition"
    /\ tx' = [tx EXCEPT !.parts = ensure_ledger_line_partition(start_date(period))]
    /\ pc' = "post_lines"
    /\ UNCHANGED << workers, tplVars, exprVars, storeVars, period, df_txn, out, df_lines, calls, uuids,
                    failedAt, call, ledgerAtCall, reposting >>

\* the rows of one COPY into ledger_entry_line, each a new tuple of the table
WithRowId(rows, n) ==
    {[k \in DOMAIN l \cup {"rid"} |->
        IF k = "rid"
        THEN n + Cardinality({g \in rows :
                 \/ g.je_id < l.je_id
                 \/ g.je_id = l.je_id /\ g.line_no <= l.line_no})
        ELSE l[k]] : l \in rows}

\* posting.py:36-37, step 5
PostLines ==
    /\ pc = "post_lines"
    /\ tx' = [tx EXCEPT !.lines = WithRowId(df_lines, Cardinality(ledgerLine))]
    /\ pc' = "post_mark"
    /\ UNCHANGED << workers, tplVars, exprVars, storeVars, period, df_txn, out, df_lines, calls, uuids,
                    failedAt, call, ledgerAtCall, reposting >>

\* a mutant: the UPDATE matches no row
MarkPosted_none(rows, runs) == rows

\* a mutant: the UPDATE without its WHERE clause
MarkPosted_all(rows, runs) == {[r EXCEPT !.posted = TRUE] : r \in rows}

\* posting.py:42-43, UPDATE ... SET posted=TRUE WHERE run_id=%s
MarkPosted(rows, runs) ==
    {IF r.run_id \in runs THEN [r EXCEPT !.posted = TRUE] ELSE r : r \in rows}

\* posting.py:39-43, step 6, and the commit at the end of the with block
\* (db.py:5-8).  item() raises unless the headers carry exactly one run_id.
PostMark ==
    /\ pc = "post_mark"
    /\ IF Cardinality({h.run_id : h \in out.headers}) # 1
       THEN /\ Raise("post_mark")
            /\ UNCHANGED << hdrStaging, lineStaging, ledgerHdr, ledgerLine, partitions >>
       ELSE /\ ledgerHdr' = ledgerHdr \cup tx.hdrs
            /\ ledgerLine' = ledgerLine \cup tx.lines
            /\ partitions' = partitions \cup tx.parts
            /\ hdrStaging' = MarkPosted(hdrStaging, {out.run_id})
            /\ lineStaging' = MarkPosted(lineStaging, {out.run_id})
            /\ tx' = NoTx
            /\ df_lines' = {}
            /\ pc' = IF call = "run_pipeline" THEN "snapshot" ELSE "done"
            /\ failedAt' = failedAt
    /\ UNCHANGED << workers, tplVars, exprVars, txn_source, tplStore, snapshot, jeSeq, period, df_txn,
                    out, calls, uuids, call, ledgerAtCall, reposting >>

\* balances.py:10-18, the CTE mvt: the ledger lines joined to the headers of the
\* month, summed by account and fund
mvt(m) ==
    LET L == {l \in ledgerLine :
                \E h \in ledgerHdr : h.je_id = l.je_id /\ InPeriod(h.je_date, m)}
    IN  {[account_code |-> k[1], fund |-> k[2],
          debit |-> SumAmount({l \in L : /\ l.account_code = k[1]
                                          /\ l.fund = k[2]
                                          /\ l.side = "DR"}),
          credit |-> SumAmount({l \in L : /\ l.account_code = k[1]
                                           /\ l.fund = k[2]
                                           /\ l.side = "CR"})] :
            k \in {<<l.account_code, l.fund>> : l \in L}}

\* balances.py:19-21, the row the INSERT is written to give for one row of mvt
\* (calculated_at left out)
SnapshotRow(m, g) ==
    [period_start |-> start_date(m), account_code |-> g.account_code, fund |-> g.fund,
     opening_balance |-> 0, debit |-> g.debit, credit |-> g.credit,
     closing_balance |-> 0 + g.debit - g.credit]

\* a mutant: the statement accepted, and a plain INSERT without ON CONFLICT
update_month_balance_appending ==
    /\ pc = "snapshot"
    /\ snapshot' = snapshot \cup
          {[k \in DOMAIN SnapshotRow(period, g) \cup {"calculated_at"} |->
              IF k = "calculated_at" THEN calls ELSE SnapshotRow(period, g)[k]] :
                g \in mvt(period)}
    /\ pc' = "done"
    /\ UNCHANGED << workers, tplVars, exprVars, txn_source, tplStore, hdrStaging, lineStaging,
                    ledgerHdr, ledgerLine, partitions, jeSeq, period, df_txn, out, tx,
                    df_lines, calls, uuids, failedAt, call, ledgerAtCall, reposting >>

\* balances.py:5-26: the INSERT selects from m, which no FROM clause introduces (the
\* CTE mvt is never referenced), so the statement is rejected and nothing is written
update_month_balance ==
    /\ pc = "snapshot"
    /\ pc' = "failed"
    /\ failedAt' = "snapshot"
    /\ UNCHANGED << workers, tplVars, exprVars, storeVars, period, df_txn, out, tx, df_lines, calls,
                    uuids, call, ledgerAtCall, reposting >>

RunPosted(run_id) == \E h \in hdrStaging : h.run_id = run_id /\ h.posted

\* post_to_ledger(headers, lines, year, month) called again with the frames of the
\* last run, after the run was staged
RepeatPost ==
    /\ pc \in {"failed", "done"}
    /\ out.status = "ok"
    /\ failedAt \in {"post", "snapshot", "none"}
    /\ calls < MaxCalls
    /\ calls' = calls + 1
    /\ call' = "post_to_ledger"
    /\ pc' = "post_headers"
    /\ failedAt' = "none"
    /\ ledgerAtCall' = <<ledgerHdr, ledgerLine>>
    /\ reposting' = RunPosted(out.run_id)
    /\ UNCHANGED << workers, tplVars, exprVars, storeVars, period, df_txn, out, tx, df_lines, uuids >>

\* update_month_balance(year, month) called again for the period of the call before,
\* after its snapshot stage has run
RepeatSnapshot ==
    /\ pc \in {"failed", "done"}
    /\ call \in {"run_pipeline", "update_month_balance"}
    /\ failedAt = "snapshot" \/ pc = "done"
    /\ calls < MaxCalls
    /\ calls' = calls + 1
    /\ call' = "update_month_balance"
    /\ pc' = "snapshot"
    /\ failedAt' = "none"
    /\ ledgerAtCall' = <<ledgerHdr, ledgerLine>>
    /\ reposting' = FALSE
    /\ UNCHANGED << workers, tplVars, exprVars, storeVars, period, df_txn, out, tx, df_lines, uuids >>

(***************************************************************************)
(* post_to_ledger called by two workers at once, each on its own           *)
(* connection (db.py:5-8).  A connection reads what is committed and what  *)
(* it wrote itself; its writes reach the tables when its with block ends.  *)
(***************************************************************************)
Workers == {1, 2}

NoWrite == [hdrs |-> {}, lines |-> {}]

\* wrote: what the call committed, kept for the properties
WorkerOff ==
    [pc |-> "off", period |-> 0, out |-> NoOut, tx |-> NoTx, df_lines |-> {},
     error |-> "none", wrote |-> NoWrite]

WorkerAt(m, o) == [WorkerOff EXCEPT !.pc = "post_headers", !.period = m, !.out = o]

\* the header rows other connections have written and not committed
OthersHdrs(w) == UNION {workers[v].tx.hdrs : v \in Workers \ {w}}

\* an exception leaves the with block of worker w: db.py:5-8 rolls back
WRaise(w, why) ==
    workers' = [workers EXCEPT ![w].pc = "failed", ![w].tx = NoTx, ![w].df_lines = {},
                               ![w].error = why]

\* posting.py:10-14, step 1.  An insert that conflicts with an uncommitted row of
\* another connection waits for that connection to end.
WPostHeaders(w) ==
    /\ workers[w].pc = "post_headers"
    /\ ~UniqueViolation(workers[w].out.headers, OthersHdrs(w))
    /\ IF UniqueViolation(workers[w].out.headers, ledgerHdr)
       THEN WRaise(w, "UniqueViolation") /\ jeSeq' = jeSeq
       ELSE /\ workers' = [workers EXCEPT
                              ![w].tx.hdrs = WithJeId(workers[w].out.headers, jeSeq),
                              ![w].pc = "post_map"]
            /\ jeSeq' = jeSeq + Cardinality(workers[w].out.headers)
    /\ UNCHANGED << tplVars, exprVars, driverVars, txn_source, tplStore, hdrStaging,
                    lineStaging, ledgerHdr, ledgerLine, partitions, snapshot >>

\* posting.py:17-23 on the connection of worker w
Wdf_map(w) ==
    {h \in ledgerHdr \cup workers[w].tx.hdrs : InPeriod(h.je_date, workers[w].period)}

\* posting.py:16-30, steps 2 and 3
WPostMap(w) ==
    /\ workers[w].pc = "post_map"
    /\ workers' = [workers EXCEPT
                     ![w].df_lines = JoinLines(workers[w].out.lines, Wdf_map(w)),
                     ![w].pc = "post_partition"]
    /\ UNCHANGED << tplVars, exprVars, driverVars, storeVars >>

\* posting.py:32-34, step 4
WPostPartition(w) ==
    /\ workers[w].pc = "post_partition"
    /\ workers' = [workers EXCEPT
                     ![w].tx.parts =
                        ensure_ledger_line_partition(start_date(workers[w].period)),
                     ![w].pc = "post_lines"]
    /\ UNCHANGED << tplVars, exprVars, driverVars, storeVars >>

\* the first row number of the tuples a connection adds to ledger_entry_line: no
\* two connections write the same tuple
RowBase(w) == w * 100

\* posting.py:36-37, step 5
WPostLines(w) ==
    /\ workers[w].pc = "post_lines"
    /\ workers' = [workers EXCEPT
                     ![w].tx.lines = WithRowId(workers[w].df_lines, RowBase(w)),
                     ![w].pc = "post_mark"]
    /\ UNCHANGED << tplVars, exprVars, driverVars, storeVars >>

\* posting.py:39-43, step 6, and the commit at the end of the with block
WPostMark(w) ==
    /\ workers[w].pc = "post_mark"
    /\ IF Cardinality({h.run_id : h \in workers[w].out.headers}) # 1
       THEN /\ WRaise(w, "ValueError")
            /\ UNCHANGED << hdrStaging, lineStaging, ledgerHdr, ledgerLine, partitions >>
       ELSE /\ ledgerHdr' = ledgerHdr \cup workers[w].tx.hdrs
            /\ ledgerLine' = ledgerLine \cup workers[w].tx.lines
            /\ partitions' = partitions \cup workers[w].tx.parts
            /\ hdrStaging' = MarkPosted(hdrStaging, {workers[w].out.run_id})
            /\ lineStaging' = MarkPosted(lineStaging, {workers[w].out.run_id})
            /\ workers' = [workers EXCEPT
                             ![w].wrote = [hdrs |-> workers[w].tx.hdrs,
                                           lines |-> workers[w].tx.lines],
                             ![w].tx = NoTx, ![w].df_lines = {}, ![w].pc = "done"]
    /\ UNCHANGED << tplVars, exprVars, driverVars, txn_source, tplStore, snapshot, jeSeq >>

\* the connection of worker w breaks: db.py:5-8 rolls its transaction back
WConnectionFails(w) ==
    /\ workers[w].pc \in PostSteps
    /\ WRaise(w, "OperationalError")
    /\ UNCHANGED << tplVars, exprVars, driverVars, storeVars >>

(***************************************************************************)
(* Specifications                                                          *)
(***************************************************************************)
ExprIdle ==
    /\ expr = <<>>
    /\ epc = "off"
    /\ code = <<>>
    /\ eres = NoResult

TplIdle ==
    /\ request = <<>>
    /\ loaded = NotLoaded

WorkersIdle == workers = [w \in Workers |-> WorkerOff]

DriverIdle ==
    /\ pc = "idle"
    /\ period = 0
    /\ df_txn = {}
    /\ out = NoOut
    /\ tx = NoTx
    /\ df_lines = {}
    /\ calls = 0
    /\ uuids = 0
    /\ failedAt = "none"
    /\ call = "none"
    /\ ledgerAtCall = <<{}, {}>>
    /\ reposting = FALSE

EmptyStore ==
    /\ hdrStaging = {}
    /\ lineStaging = {}
    /\ ledgerHdr = {}
    /\ ledgerLine = {}
    /\ partitions = {}
    /\ snapshot = {}
    /\ jeSeq = 0

\* the pipeline over a store holding some transactions and one template
Init ==
    /\ ExprIdle
    /\ TplIdle
    /\ WorkersIdle
    /\ DriverIdle
    /\ EmptyStore
    /\ txn_source \in TxnTables
    /\ tplStore \in TemplateStores

Next ==
    \/ \E m \in Periods : load_txn_for_month(m)
    \/ Expand
    \/ stage_to_db
    \/ PostHeaders
    \/ PostMap
    \/ PostPartition
    \/ PostLines
    \/ PostMark
    \/ ConnectionFails
    \/ update_month_balance
    \/ RepeatPost
    \/ RepeatSnapshot

Spec == Init /\ [][Next]_vars

\* to_polars on every expression string of the alphabet
InitExpr ==
    /\ expr \in ExprStrings
    /\ WorkersIdle
    /\ epc = "start"
    /\ code = <<>>
    /\ eres = NoResult
    /\ TplIdle
    /\ DriverIdle
    /\ EmptyStore
    /\ txn_source = {}
    /\ tplStore = {}

NextExpr ==
    \/ CheckChars
    \/ SubstituteTokens
    \/ EvalCode

SpecExpr == InitExpr /\ [][NextExpr]_vars

\* a template row with one match row
MatchedTemplate(tcode, ty, st, from, m) ==
    [template_code |-> tcode, template_version |-> "v1", txn_type |-> ty, status |-> st,
     effective_date |-> <<from, 1>>, expiry_date |-> <<from + 1, 1>>,
     matches |-> {m}, lines |-> {}, conds |-> {}, control |-> {}]

MatchRows ==
    [match_id : {1}, product_code : {"LIFE01", "HEALTH", NULL},
     channel : {"AGENCY", "ONLINE", NULL}, priority : {1, 2}]

TemplatesOf(tcode) ==
    {MatchedTemplate(tcode, ty, st, from, m) :
        ty \in {"PREMIUM_RECEIPT", "CLAIM"}, st \in {"ACTIVE", "DRAFT"},
        from \in Periods, m \in MatchRows}

\* the stores of one or two templates, each with its match row
MatchStores ==
    {{a} : a \in TemplatesOf("A")}
        \cup {{a, b} : a \in TemplatesOf("A"), b \in TemplatesOf("B")}

Requests ==
    [txn_type : {"PREMIUM_RECEIPT"}, product_code : {"LIFE01"}, channel : {"AGENCY"},
     txn_date : Dates]

\* load_active_template on every store and request
InitTpl ==
    /\ ExprIdle
    /\ WorkersIdle
    /\ DriverIdle
    /\ EmptyStore
    /\ txn_source = {}
    /\ tplStore \in MatchStores
    /\ request \in Requests
    /\ loaded = NotLoaded

NextTpl == LoadTemplate

SpecTpl == InitTpl /\ [][NextTpl]_vars

\* two templates that qualify for the same transactions with equal priority:
\* LIMIT 1 gives either (templates.py:15-16)
ConcStore == {T_BALANCED, T_COND}

\* the frames expand_transactions gives for a batch with template t (run_id n), staged
ExpandedBy(b, t, n) == {o \in expand_transactions(b, {t}, n) : o.status = "ok"}

\* two workers are about to post, for the same month, the staged output of two
\* different templates, each for a batch of the month's transactions
InitConc ==
    /\ ExprIdle
    /\ TplIdle
    /\ DriverIdle
    /\ txn_source \in TxnTables
    /\ tplStore = ConcStore
    /\ ledgerHdr = {}
    /\ ledgerLine = {}
    /\ partitions = {}
    /\ snapshot = {}
    /\ jeSeq = 0
    /\ \E m \in Periods, t1 \in ConcStore :
         \E t2 \in ConcStore \ {t1} :
           \E b1, b2 \in (SUBSET {r \in txn_source : r.txn_month = m}) \ {{}} :
             \E o1 \in ExpandedBy(b1, t1, 1), o2 \in ExpandedBy(b2, t2, 2) :
                /\ workers = [w \in Workers |-> WorkerAt(m, IF w = 1 THEN o1 ELSE o2)]
                /\ hdrStaging = {Staged(h) : h \in o1.headers \cup o2.headers}
                /\ lineStaging = {Staged(l) : l \in o1.lines \cup o2.lines}

NextConc ==
    \E w \in Workers :
        \/ WPostHeaders(w)
        \/ WPostMap(w)
        \/ WPostPartition(w)
        \/ WPostLines(w)
        \/ WPostMark(w)
        \/ WConnectionFails(w)

SpecConc == InitConc /\ [][NextConc]_vars

\* the products of a month (seed_txn_source.py:23)
MixedProducts == {"LIFE01", "FAM01"}

\* the tables of at most MaxTxn rows whose rows differ in product
MixedTables ==
    UNION {{ {[TxnRow(i, f[i][1], f[i][2]) EXCEPT !.product_code = f[i][3]] : i \in 1..n} :
                f \in [1..n -> Dates \X GrossAmounts \X MixedProducts]} :
           n \in 0..MaxTxn}

ForProduct(t, tcode, product) ==
    [t EXCEPT !.template_code = tcode,
              !.matches = {[match_id |-> 1, product_code |-> product, channel |-> NULL,
                            priority |-> 1]}]

\* a template for each product
T_LIFE == ForProduct(T_BALANCED, "LIFE", "LIFE01")
T_FAM == ForProduct(T_COND, "FAM", "FAM01")

MixedStores == {{T_LIFE, T_FAM}, {T_LIFE, T_FAM, T_BALANCED}, {T_BALANCED}}

\* run_pipeline up to the expansion, over a month of transactions of several products
InitBatch ==
    /\ ExprIdle
    /\ TplIdle
    /\ WorkersIdle
    /\ DriverIdle
    /\ EmptyStore
    /\ txn_source \in MixedTables
    /\ tplStore \in MixedStores

NextBatch ==
    \/ \E m \in Periods : load_txn_for_month(m)
    \/ Expand

SpecBatch == InitBatch /\ [][NextBatch]_vars

(***************************************************************************)
(* Properties                                                              *)
(***************************************************************************)
\* the template the headers of the last expansion reference, and its control
RunTemplates ==
    {t \in tplStore : \E h \in out.headers :
        /\ h.template_code = t.template_code
        /\ h.template_version = t.template_version}

ControlOf(t) ==
    IF t.control = {} THEN Control(TRUE, DefaultTolerance)
    ELSE CHOOSE c \in t.control : TRUE

DebitSum(lines, je) == SumAmount({x \in lines : x.je_number = je /\ x.side = "DR"})
CreditSum(lines, je) == SumAmount({x \in lines : x.je_number = je /\ x.side = "CR"})

\* the lines the template t yields for the row r: those of its active lines whose
\* conditions hold on r and whose rounded amount is not zero
RowLines(t, r) ==
    {l \in t.lines :
        /\ l.is_active
        /\ LineEnabled(t, l, r)
        /\ RoundTo(EvalNum(Compiled[l.amount_expr].ast, r), l.amount_round) # 0}

RowSide(t, r, side) ==
    SumAmount({[line_no |-> l.line_no,
                amount |-> RoundTo(EvalNum(Compiled[l.amount_expr].ast, r),
                                   l.amount_round)] :
                  l \in {x \in RowLines(t, r) : x.side = side}})

RowDiff(t, r) == Abs(RowSide(t, r, "DR") - RowSide(t, r, "CR"))

Compiles(t) == \A l \in t.lines : l.is_active => LineCompiles(t, l)

\* C1: when expand_transactions returns for a template with require_balanced, every
\* header it returns has |sum of its DR lines - sum of its CR lines| within
\* tolerance_amount, over the lines returned, which are those of the enabled
\* template lines with a non-zero rounded amount.
C1_BalancedWithinTolerance ==
    out.status = "ok" =>
        \A t \in RunTemplates :
            /\ ControlOf(t).require_balanced =>
                 \A h \in out.headers :
                    Abs(DebitSum(out.lines, h.je_number) - CreditSum(out.lines, h.je_number))
                        <= ControlOf(t).tolerance_amount
            /\ \A r \in df_txn :
                 {x.line_no : x \in {y \in out.lines : y.je_number = je_number(r, 0)}}
                    = {l.line_no : l \in RowLines(t, r)}
            /\ \A x \in out.lines : x.amount # 0

\* a returned batch with a journal that is out of balance, within the tolerance
C1_Witness ==
    /\ out.status = "ok"
    /\ \E t \in RunTemplates :
          /\ ControlOf(t).require_balanced
          /\ \E h \in out.headers :
                DebitSum(out.lines, h.je_number) # CreditSum(out.lines, h.je_number)

\* C2: if one header of the batch is out of balance by more than the tolerance,
\* expand_transactions raises and returns no header and no line, for the balanced
\* transactions of the batch either, and run_pipeline writes nothing to the staging,
\* ledger and snapshot tables.
OutOfBalance(t, df) ==
    /\ Compiles(t)
    /\ ControlOf(t).require_balanced
    /\ \E r \in df : RowDiff(t, r) > ControlOf(t).tolerance_amount

C2_AllOrNothing ==
    (call = "run_pipeline" /\ pc # "expand" /\ \E t \in tplStore : OutOfBalance(t, df_txn))
        => /\ out.status = "raised"
           /\ out.headers = {}
           /\ out.lines = {}
           /\ pc = "failed"
           /\ failedAt = "expand"
           /\ \A h \in hdrStaging : h.run_id # uuids
           /\ \A l \in lineStaging : l.run_id # uuids
           /\ <<ledgerHdr, ledgerLine>> = ledgerAtCall
           /\ snapshot = {}

\* a batch of a balanced and an unbalanced transaction was refused
C2_Witness ==
    /\ call = "run_pipeline"
    /\ pc = "failed"
    /\ failedAt = "expand"
    /\ \E t \in tplStore :
          /\ OutOfBalance(t, df_txn)
          /\ \E r \in df_txn : RowDiff(t, r) = 0 /\ RowLines(t, r) # {}

\* C3: post_to_ledger called again with the frames of an already posted run inserts
\* no ledger header and no ledger line: the ledger tables stay as they were when
\* the second call began, and the call goes no further than the header insert.
C3_RepostInsertsNothing ==
    reposting =>
        /\ <<ledgerHdr, ledgerLine>> = ledgerAtCall
        /\ pc \in {"post_headers", "failed"}
        /\ tx = NoTx

\* the second call on a posted run with headers and lines in the ledger has ended
C3_Witness ==
    /\ reposting
    /\ pc = "failed"
    /\ ledgerHdr # {}
    /\ ledgerLine # {}

\* the transactions and the staged lines behind the ledger rows of month m
LedgerOf(m) == {h \in ledgerHdr : h.je_date[1] = m}

LinesOf(h) == {l \in ledgerLine : l.je_id = h.je_id}

StagedLinesOf(h) ==
    {l \in lineStaging : l.run_id = h.run_id /\ l.je_number = h.je_number}

\* C4: however often run_pipeline ran for a period, once the period is posted the
\* ledger holds exactly one header per transaction of the period and exactly one
\* ledger line per journal line generated for it.
C4_PostedExactlyOnce ==
    \A m \in Periods :
        LedgerOf(m) # {} =>
            /\ \A r \in txn_source :
                 r.txn_month = m =>
                    Cardinality({h \in LedgerOf(m) : h.source_rowid = r.source_rowid}) = 1
            /\ \A h \in LedgerOf(m) :
                 /\ \E r \in txn_source :
                       r.txn_month = m /\ r.source_rowid = h.source_rowid
                 /\ \A l \in StagedLinesOf(h) :
                       Cardinality({x \in LinesOf(h) :
                                       /\ x.line_no = l.line_no
                                       /\ x.side = l.side
                                       /\ x.account_code = l.account_code
                                       /\ x.amount = l.amount}) = 1
                 /\ Cardinality(LinesOf(h)) = Cardinality(StagedLinesOf(h))
            /\ \A l \in ledgerLine : \E h \in ledgerHdr : h.je_id = l.je_id

\* run_pipeline ran a second time for a month that the first run had posted
C4_Witness ==
    /\ call = "run_pipeline"
    /\ uuids = 2
    /\ pc = "failed"
    /\ failedAt = "post"
    /\ \E h \in LedgerOf(period) : h.run_id = 1 /\ LinesOf(h) # {}
    /\ \E h \in hdrStaging : h.run_id = 2

\* C5 as claimed: when a step of post_to_ledger fails, the ledger tables are those
\* of the start of the call and no staging row of the run has posted = TRUE.
C5_NoRowOfRunPosted ==
    (pc = "failed" /\ failedAt = "post") =>
        /\ <<ledgerHdr, ledgerLine>> = ledgerAtCall
        /\ \A h \in hdrStaging : h.run_id = out.run_id => ~h.posted
        /\ \A l \in lineStaging : l.run_id = out.run_id => ~l.posted

\* C5: when a step of post_to_ledger fails, the call leaves no ledger header and no
\* ledger line behind and marks no staging row posted: the ledger tables are those
\* of the start of the call, nothing is left uncommitted, and a staging row of the
\* run is posted only if the run was posted before the call.
C5_PostAtomic ==
    (pc = "failed" /\ failedAt = "post") =>
        /\ <<ledgerHdr, ledgerLine>> = ledgerAtCall
        /\ tx = NoTx
        /\ \A h \in hdrStaging : (h.run_id = out.run_id /\ h.posted) => reposting
        /\ \A l \in lineStaging : (l.run_id = out.run_id /\ l.posted) => reposting

\* a call that failed after its header insert had drawn ledger ids
C5_Witness ==
    /\ pc = "failed"
    /\ failedAt = "post"
    /\ ~reposting
    /\ jeSeq > Cardinality(ledgerHdr)
    /\ \E h \in hdrStaging : h.run_id = out.run_id

\* C6 as claimed: when run_pipeline ends with an error, no ledger header and no
\* ledger line of that run persists and no staging row of that run is posted.
C6_FailedRunLeavesOnlyStaging ==
    (call = "run_pipeline" /\ pc = "failed") =>
        /\ \A h \in ledgerHdr : h.run_id # uuids
        /\ <<ledgerHdr, ledgerLine>> = ledgerAtCall
        /\ \A h \in hdrStaging : h.run_id = uuids => ~h.posted
        /\ \A l \in lineStaging : l.run_id = uuids => ~l.posted

\* C7: every committed ledger line belongs to a committed ledger header whose
\* staging header, of the same run, is posted.
C7_LineHasPostedStaging ==
    \A l \in ledgerLine :
        \E h \in ledgerHdr :
            /\ h.je_id = l.je_id
            /\ \E s \in hdrStaging :
                  /\ s.run_id = h.run_id
                  /\ s.je_number = h.je_number
                  /\ s.posted

\* ledger lines are committed, and a later call has failed
C7_Witness ==
    /\ ledgerLine # {}
    /\ calls = 2
    /\ pc = "failed"
    /\ failedAt = "post"

\* C8: post_to_ledger ensures the partition of the period before it inserts a
\* ledger line, every line it inserts is dated inside the period, and no committed
\* line lies in a month without a partition.
C8_PartitionBeforeLines ==
    /\ tx.lines # {} => period \in tx.parts
    /\ \A l \in tx.lines : InPeriod(l.je_date, period)
    /\ \A l \in ledgerLine : l.je_date[1] \in partitions

\* lines are inserted, uncommitted, into a partition this call created
C8_Witness ==
    /\ pc = "post_mark"
    /\ tx.lines # {}
    /\ period \notin partitions

StagedRuns == {h.run_id : h \in hdrStaging}
RunPeriod(run) == {h.je_date[1] : h \in {g \in hdrStaging : g.run_id = run}}
RunNumbers(run) == {h.je_number : h \in {g \in hdrStaging : g.run_id = run}}
RunLines(run) ==
    {<<l.je_number, l.line_no, l.side, l.account_code, l.amount>> :
        l \in {x \in lineStaging : x.run_id = run}}

\* C9: two expansions of the same batch against the same template give the same
\* header numbers, each "JE-" + YYYYMM of the value date + "-" + source_rowid, and
\* the same (je_number, line_no, side, account, amount) lines; only run_id differs.
C9_Deterministic ==
    /\ \A h \in hdrStaging \cup out.headers :
          \E r \in txn_source :
              /\ r.source_rowid = h.source_rowid
              /\ h.je_number = <<"JE", r.bank_value_date[1], r.source_rowid>>
    /\ \A a, b \in StagedRuns :
          RunPeriod(a) = RunPeriod(b) =>
              /\ RunNumbers(a) = RunNumbers(b)
              /\ RunLines(a) = RunLines(b)

\* two runs of the second month are staged, with lines
C9_Witness ==
    \E a, b \in StagedRuns :
        /\ a # b
        /\ RunPeriod(a) = {2}
        /\ RunPeriod(b) = {2}
        /\ RunLines(a) # {}

\* C10: to_polars raises at the character check, before the token substitution and
\* before eval, for every expression string with a character outside the class,
\* and no table is written.
C10_IllegalCharsRejected ==
    HasIllegalChar(expr) =>
        /\ epc \in {"start", "raised"}
        /\ epc = "raised" => eres = Raised("ValueError")
        /\ code = <<>>
        /\ hdrStaging \cup lineStaging \cup ledgerHdr \cup ledgerLine = {}

\* the string ":gross_amount;" was refused
C10_Witness ==
    /\ expr = <<":", "gross_amount", ";">>
    /\ epc = "raised"

\* a :name whose name is no column of the frame
HasUnknownField(s) ==
    \E i \in 1..(Len(s) - 1) : s[i] = ":" /\ s[i + 1] \in Names \ df_cols

\* C11: to_polars raises for every expression string with a reference :name to a
\* name outside the known columns, at the character check or at the substitution
\* of the tokens and so before eval builds or evaluates anything; no table is
\* written.
C11_UnknownFieldRejected ==
    HasUnknownField(expr) =>
        /\ epc \in {"start", "substitute", "raised"}
        /\ epc = "raised" => eres \in {Raised("ValueError"), Raised("KeyError")}
        /\ \A i \in DOMAIN code : code[i].t = "lex"
        /\ hdrStaging \cup lineStaging \cup ledgerHdr \cup ledgerLine = {}

\* "1-:nofield", of legal characters only, was refused with KeyError
C11_Witness ==
    /\ expr = <<"1", "-", ":", "nofield">>
    /\ epc = "raised"
    /\ eres = Raised("KeyError")

\* the names the grammar has: the four functions, each before its parenthesis
GrammarFuncs == {"abs", "min", "max", "round"}

\* an identifier that is neither a :field reference nor a function of the grammar
ForeignIdentifier(s) ==
    \E i \in DOMAIN s :
        /\ s[i] \in Names
        /\ ~(i > 1 /\ s[i - 1] = ":")
        /\ ~(s[i] \in GrammarFuncs /\ i < Len(s) /\ s[i + 1] = "(")

\* C12 as claimed: an expression string of allowed characters that holds an
\* identifier outside the grammar (a bare name, an attribute) is never accepted:
\* to_polars does not return for it.
C12_GrammarClosed ==
    (~HasIllegalChar(expr) /\ ForeignIdentifier(expr)) => epc # "returned"

\* the lexemes of s without the blanks
NoBlanks(s) == SelectSeq(s, LAMBDA x : x \notin Blanks)

\* a known field compared by > with a number or with another known field
IsComparison(s) ==
    LET t == NoBlanks(s) IN
    /\ Len(t) \in {4, 5}
    /\ t[1] = ":"
    /\ t[2] \in df_cols
    /\ t[3] = ">"
    /\ \/ Len(t) = 4 /\ t[4] \in Numbers
       \/ Len(t) = 5 /\ t[4] = ":" /\ t[5] \in df_cols

\* C13 as claimed: a condition that compares a known field with a literal or with
\* another field by a comparison operator compiles: when to_polars has ended on
\* it, it has returned a pl.Expr.
C13_ComparisonCompiles ==
    (IsComparison(expr) /\ epc \in {"returned", "raised"}) =>
        /\ epc = "returned"
        /\ eres.status = "ok"
        /\ eres.ty = "expr"

\* the templates load_active_template can give for the batch df
TemplatesFor(df) ==
    UNION {load_active_template(tplStore, r.txn_type, r.product_code, r.channel,
                                r.bank_value_date) : r \in df}

\* every condition attached to the line_no of l is true on the row r
CondsHold(t, l, r) ==
    \A c \in t.conds :
        c.line_no = l.line_no => EvalBool(Compiled[c.cond_expr].ast, r)

\* the amount of line l on row r, rounded to the precision of the line
Rounded(l, r) == RoundTo(EvalNum(Compiled[l.amount_expr].ast, r), l.amount_round)

\* the (line, transaction) pairs to emit: active lines whose conditions all hold,
\* with a rounded amount other than zero
Enabled(t, df) ==
    {p \in {l \in t.lines : l.is_active} \X df :
        CondsHold(t, p[1], p[2]) /\ Rounded(p[1], p[2]) # 0}

\* the sum of the enabled lines of one side on row r
EnabledSum(t, r, side) ==
    SumAmount({[line_no |-> p[1].line_no, amount |-> Rounded(p[1], r)] :
                 p \in {q \in Enabled(t, {r}) : q[1].side = side}})

\* C14: a template line is emitted for a transaction only if all conditions
\* attached to its line_no hold for that transaction (a line without conditions
\* always does); a pair whose combined condition is false is not among the emitted
\* lines, and the balance check does not count it: a batch is refused as
\* unbalanced only if the enabled lines of some transaction are out of balance.
C14_ConditionalExclusion ==
    /\ out.status = "ok" =>
          \A t \in RunTemplates :
              {<<x.je_number[3], x.line_no>> : x \in out.lines}
                 = {<<p[2].source_rowid, p[1].line_no>> : p \in Enabled(t, df_txn)}
    /\ (out.status = "raised" /\ out.error = "unbalanced") =>
          \E t \in TemplatesFor(df_txn), r \in df_txn :
              Abs(EnabledSum(t, r, "DR") - EnabledSum(t, r, "CR")) > t.control.tolerance_amount

\* a returned batch with a line left out for one transaction and kept for another
C14_Witness ==
    /\ out.status = "ok"
    /\ \E t \in RunTemplates : \E l \in t.lines, r1, r2 \in df_txn :
          /\ ~CondsHold(t, l, r1)
          /\ Rounded(l, r1) # 0
          /\ CondsHold(t, l, r2)
          /\ \E x \in out.lines : x.line_no = l.line_no /\ x.je_number[3] = r2.source_rowid

\* C15: the zero test is applied to the rounded amount: no emitted line has the
\* amount zero, every emitted amount is the rounded one, a pair whose rounded
\* amount is zero is not emitted, and every transaction of the batch has its
\* header, also when all of its lines are suppressed.
C15_ZeroSuppression ==
    out.status = "ok" =>
        /\ \A x \in out.lines : x.amount # 0
        /\ \A t \in RunTemplates : \A l \in t.lines, r \in df_txn :
              LET emitted == {x \in out.lines :
                                x.line_no = l.line_no /\ x.je_number[3] = r.source_rowid}
              IN  /\ Rounded(l, r) = 0 => emitted = {}
                  /\ \A x \in emitted : x.amount = Rounded(l, r)
        /\ {h.source_rowid : h \in out.headers} = {r.source_rowid : r \in df_txn}

\* a transaction with an amount that rounds to zero on every line has its header
\* and no line
C15_Witness ==
    /\ out.status = "ok"
    /\ \E r \in df_txn :
          /\ r.gross_amount # 0
          /\ \E h \in out.headers : h.source_rowid = r.source_rowid
          /\ \A x \in out.lines : x.je_number[3] # r.source_rowid

\* the template row load_active_template returned
LoadedTemplates ==
    {t \in tplStore : /\ t.template_code = loaded.template_code
                      /\ t.template_version = loaded.template_version}

\* the match row m lets the requested product and channel through
MatchFits(m) ==
    /\ m.product_code \in {request.product_code, NULL}
    /\ m.channel \in {request.channel, NULL}

\* the template row t is of the requested type, active and valid on the date
TemplateFits(t) ==
    /\ t.txn_type = request.txn_type
    /\ t.status = "ACTIVE"
    /\ \/ t.effective_date[1] < request.txn_date[1]
       \/ t.effective_date[1] = request.txn_date[1]
             /\ t.effective_date[2] <= request.txn_date[2]
    /\ \/ request.txn_date[1] < t.expiry_date[1]
       \/ request.txn_date[1] = t.expiry_date[1]
             /\ request.txn_date[2] < t.expiry_date[2]

\* C16: the template load_active_template returns is of the requested txn_type,
\* ACTIVE, valid on the date (effective_date <= date < expiry_date) and has a match
\* row whose product_code and channel are each the requested one or null.
C16_ReturnedTemplateQualifies ==
    loaded.status = "ok" =>
        /\ LoadedTemplates # {}
        /\ \A t \in LoadedTemplates :
              /\ TemplateFits(t)
              /\ \E m \in t.matches : MatchFits(m)

\* a template was returned on a wildcard channel while the other template of the
\* store, of the requested type and active, has expired on the requested date
C16_Witness ==
    /\ loaded.status = "ok"
    /\ \E t \in LoadedTemplates :
          \E m \in t.matches : m.channel = NULL /\ m.product_code = request.product_code
    /\ \E u \in tplStore \ LoadedTemplates :
          /\ u.txn_type = request.txn_type
          /\ u.status = "ACTIVE"
          /\ u.expiry_date = request.txn_date
          /\ \E m \in u.matches : MatchFits(m)

\* the position of a match row in the order: priority, then wildcard product last,
\* then wildcard channel last
Rank(m) ==
    m.priority * 4 + (IF m.product_code = NULL THEN 2 ELSE 0)
                   + (IF m.channel = NULL THEN 1 ELSE 0)

\* C17: the returned template has a qualifying match row that is first in the
\* order (lowest priority, then non-wildcard product, then non-wildcard channel):
\* no qualifying row of any template is strictly earlier.
C17_FirstInOrder ==
    loaded.status = "ok" =>
        \E t \in LoadedTemplates : \E m \in t.matches :
            /\ TemplateFits(t)
            /\ MatchFits(m)
            /\ \A u \in tplStore : \A n \in u.matches :
                  (TemplateFits(u) /\ MatchFits(n)) => Rank(n) >= Rank(m)

\* two templates qualify with the same priority; the one returned matches the
\* product exactly, the other by wildcard
C17_Witness ==
    /\ loaded.status = "ok"
    /\ \E t \in LoadedTemplates, u \in tplStore \ LoadedTemplates :
          /\ TemplateFits(u)
          /\ \E m \in t.matches, n \in u.matches :
                /\ MatchFits(n)
                /\ n.priority = m.priority
                /\ n.product_code = NULL
                /\ m.product_code # NULL

\* no template of the store fits the type, product, channel and date of a row of df
NoneQualifies(df) ==
    \A r \in df : \A t \in tplStore :
        ~ /\ t.txn_type = r.txn_type
          /\ t.status = "ACTIVE"
          /\ DateLE(t.effective_date, r.bank_value_date)
          /\ DateLT(r.bank_value_date, t.expiry_date)
          /\ \E m \in t.matches :
                /\ m.product_code \in {r.product_code, NULL}
                /\ m.channel \in {r.channel, NULL}

\* C18: when no template qualifies for the batch, load_active_template raises and
\* expand_transactions returns no header and no line; run_pipeline ends at the
\* expand stage and writes nothing to the staging, ledger and snapshot tables.
C18_NoTemplateAborts ==
    (call = "run_pipeline" /\ pc # "expand" /\ df_txn # {} /\ NoneQualifies(df_txn)) =>
        /\ out = ExpandRaised(uuids, "no template")
        /\ pc = "failed"
        /\ failedAt = "expand"
        /\ \A h \in hdrStaging : h.run_id # uuids
        /\ \A l \in lineStaging : l.run_id # uuids
        /\ <<ledgerHdr, ledgerLine>> = ledgerAtCall
        /\ snapshot = {}

\* run_pipeline was refused for a month after the template's expiry, after it had
\* posted the month before
C18_Witness ==
    /\ call = "run_pipeline"
    /\ pc = "failed"
    /\ failedAt = "expand"
    /\ df_txn # {}
    /\ NoneQualifies(df_txn)
    /\ ledgerHdr # {}

\* run_id and template identity of a header or line row
RunAndTemplate(x) == <<x.run_id, x.template_code, x.template_version>>

\* the rows returned by the last expansion, and those staged, by run and template
ReturnedRows == {RunAndTemplate(x) : x \in out.headers} \cup {RunAndTemplate(x) : x \in out.lines}
StagedRows == {RunAndTemplate(x) : x \in hdrStaging} \cup {RunAndTemplate(x) : x \in lineStaging}

\* C19: all headers and lines one expand_transactions call returns carry the
\* run_id of the call and one (template_code, template_version); the rows of one
\* run_id in staging are of one template; and the run_id of a call is new: before
\* the call's rows are staged, no staged row carries it.
C19_RunNotSplit ==
    /\ out.status = "ok" =>
          /\ \A x \in ReturnedRows : x[1] = out.run_id
          /\ Cardinality(ReturnedRows) <= 1
    /\ \A x, y \in StagedRows : x[1] = y[1] => x = y
    /\ pc = "stage" => \A x \in StagedRows : x[1] # out.run_id

\* two runs are staged, with lines, each of its own template
C19_Witness ==
    \E x, y \in {RunAndTemplate(l) : l \in lineStaging} :
        /\ x[1] # y[1]
        /\ x[2] # y[2]

\* the positions of run_pipeline in the order of run_month.py:27-36, the six steps of
\* post_to_ledger in theirs
StageOrder ==
    {<<"expand", "stage">>, <<"stage", "post_headers">>, <<"post_headers", "post_map">>,
     <<"post_map", "post_partition">>, <<"post_partition", "post_lines">>,
     <<"post_lines", "post_mark">>, <<"post_mark", "snapshot">>, <<"snapshot", "done">>}

\* one step of a run_pipeline call keeps the order
OrderedStep ==
    (call' = "run_pipeline" /\ pc' # pc) =>
        \* a call begins with the load, after the call before it has ended
        /\ call # "run_pipeline" \/ Terminated =>
              /\ Terminated
              /\ pc' = "expand"
              /\ df_txn' = {r \in txn_source : r.txn_month = period'}
        \* a stage follows the one before it, or the call ends with the error
        /\ (call = "run_pipeline" /\ ~Terminated) =>
              \/ <<pc, pc'>> \in StageOrder
              \/ pc' = "failed" /\ failedAt' = StageOf(pc)
        \* staging starts after the expansion returned
        /\ pc' = "stage" => out'.status = "ok" /\ out'.run_id = uuids'
        \* posting starts after staging has committed the rows of the run
        /\ pc' = "post_headers" =>
              /\ {Staged(h) : h \in out.headers} \subseteq hdrStaging'
              /\ {Staged(l) : l \in out.lines} \subseteq lineStaging'
        \* the snapshot starts after posting has committed
        /\ pc' = "snapshot" =>
              /\ tx' = NoTx
              /\ \A h \in out.headers :
                    \E g \in ledgerHdr' : g.run_id = h.run_id /\ g.je_number = h.je_number
              /\ \A h \in hdrStaging' : h.run_id = out.run_id => h.posted

\* C20: run_pipeline runs load, expand, stage, post, snapshot in this order, each
\* stage after the one before it returned: posting starts with the staging rows
\* committed, the snapshot with the posting committed, and after an error no later
\* stage of the call runs.
C20_StagesInOrder == [][OrderedStep]_vars

\* a run has reached the snapshot stage with its lines in the ledger
C20_Witness ==
    /\ call = "run_pipeline"
    /\ pc = "snapshot"
    /\ \E l \in lineStaging : l.run_id = uuids /\ l.posted
    /\ ledgerLine # {}

\* the rows of the snapshot table for month m
SnapshotOf(m) == {x \in snapshot : x.period_start = start_date(m)}

\* update_month_balance has run for the month of the call and has ended
SnapshotEnded ==
    /\ Terminated
    /\ \/ failedAt = "snapshot"
       \/ pc = "done" /\ call = "run_pipeline"

\* C21: once update_month_balance has run for a period, the snapshot table holds
\* for that period exactly one row per account and fund with posted ledger lines
\* in the period, with debit the sum of its DR amounts, credit the sum of its CR
\* amounts, opening 0 and closing_balance = debit - credit.
C21_SnapshotHoldsBalances ==
    SnapshotEnded =>
        /\ SnapshotOf(period) = {SnapshotRow(period, g) : g \in mvt(period)}
        /\ \A x, y \in SnapshotOf(period) :
              (x.account_code = y.account_code /\ x.fund = y.fund) => x = y

\* a snapshot row without its calculated_at
WithoutCalculatedAt(x) == [k \in DOMAIN x \ {"calculated_at"} |-> x[k]]

\* a step of update_month_balance called again leaves the rows as the run before
\* left them, one row for each period, account and fund
RerunStep ==
    (call = "update_month_balance" /\ pc = "snapshot" /\ pc' # pc) =>
        /\ <<ledgerHdr', ledgerLine'>> = ledgerAtCall
        /\ {WithoutCalculatedAt(x) : x \in snapshot'}
              = {WithoutCalculatedAt(x) : x \in snapshot}
        /\ \A x, y \in snapshot' :
              (/\ x.period_start = y.period_start
               /\ x.account_code = y.account_code
               /\ x.fund = y.fund) => x = y

Carries(x, l) ==
    /\ x.line_no = l.line_no
    /\ x.side = l.side
    /\ x.account_code = l.account_code
    /\ x.fund = l.fund
    /\ x.amount = l.amount

\* the ledger holds the headers and lines of the run of worker w exactly once
PostedOnce(w) ==
    LET o == workers[w].out IN
    /\ \A h \in o.headers :
          Cardinality({g \in ledgerHdr :
                          g.run_id = h.run_id /\ g.je_number = h.je_number}) = 1
    /\ \A g \in {h \in ledgerHdr : h.run_id = o.run_id} :
          LET mine == {l \in o.lines : l.je_number = g.je_number} IN
          /\ \A l \in mine : Cardinality({x \in LinesOf(g) : Carries(x, l)}) = 1
          /\ Cardinality(LinesOf(g)) = Cardinality(mine)

\* C23: two workers posting the outputs of two different templates for the same
\* period are safe under every interleaving: the partition of the period is
\* provided for both, neither post fails because of the other, and when both have
\* committed the ledger holds what the two posts give one after the other, each
\* run's headers and lines exactly once.
C23_ConcurrentPostsSafe ==
    /\ \A w \in Workers : workers[w].error \notin {"UniqueViolation", "ValueError"}
    /\ \A w \in Workers :
          workers[w].pc \in {"post_mark", "done"} =>
              workers[w].period \in partitions \cup workers[w].tx.parts
    /\ (\A w \in Workers : workers[w].pc = "done") =>
          /\ \A w \in Workers : PostedOnce(w)
          /\ \A x \in ledgerLine : \E h \in ledgerHdr : h.je_id = x.je_id

\* C24: for an empty batch expand_transactions returns empty headers, empty lines
\* and a fresh run_id, and calls no template resolution: whatever the template
\* store holds, no error is raised.
C24_EmptyBatchReturns ==
    (df_txn = {} /\ out # NoOut) =>
        /\ out.status = "ok"
        /\ out.headers = {}
        /\ out.lines = {}
        /\ ~out.resolved
        /\ out.run_id = uuids
        /\ \A x \in hdrStaging \cup lineStaging \cup ledgerHdr : x.run_id # out.run_id

\* an empty month was expanded, a second run, over a store without a template for
\* the month
C24_Witness ==
    /\ df_txn = {}
    /\ out # NoOut
    /\ uuids = 2
    /\ period = 2
    /\ tplStore = {T_OLD}

\* C25: a template none of whose lines is enabled for any row of a non-empty batch
\* (each line inactive, disabled by its conditions or zero-suppressed on every row)
\* is valid: expand_transactions raises no error, require_balanced or not, and
\* returns one header per transaction and no line.
C25_AllDisabledValid ==
    (df_txn # {} /\ out # NoOut) =>
        \A t \in TemplatesFor(df_txn) :
            (Compiles(t) /\ Enabled(t, df_txn) = {}) =>
                /\ out.status = "ok"
                /\ out.lines = {}
                /\ {h.source_rowid : h \in out.headers} = {r.source_rowid : r \in df_txn}
                /\ Cardinality(out.headers) = Cardinality(df_txn)

\* the largest |debit_sum - credit_sum| over the transactions of the batch, taken
\* over the enabled lines, exceeds the tolerance of the template
OverTolerance(t, df) ==
    \E r \in df :
        Abs(EnabledSum(t, r, "DR") - EnabledSum(t, r, "CR")) > t.control.tolerance_amount

\* C26: with require_balanced set, expand_transactions aborts if and only if the
\* largest |debit_sum - credit_sum| over the headers is strictly greater than
\* tolerance_amount; a batch at or below the tolerance is returned, also when all
\* its lines are on one side.
C26_AbortsIffOverTolerance ==
    (df_txn # {} /\ out # NoOut) =>
        \A t \in TemplatesFor(df_txn) :
            (Compiles(t) /\ t.control.require_balanced) =>
                (out.status = "raised" <=> OverTolerance(t, df_txn))

Marked(r) == [r EXCEPT !.posted = TRUE]

\* the step in which post_to_ledger marks the rows and commits
PostCommits == pc = "post_mark" /\ pc' \in {"snapshot", "done"}

\* the run_id of the headers given to post_to_ledger
GivenRuns == {h.run_id : h \in out.headers}

\* one step on a staging table, before and after
StagingFrame(before, after) ==
    \* a row stays as it is, or is an unposted row of the posted run and gets its mark
    /\ \A r \in before :
          \/ r \in after
          \/ /\ PostCommits
             /\ r.run_id \in GivenRuns
             /\ ~r.posted
             /\ Marked(r) \in after
    \* a post that commits leaves no row of its run unmarked
    /\ PostCommits => \A r \in after : r.run_id \in GivenRuns => r.posted
    \* a row that was not there is an unposted row of the run stage_to_db is writing
    /\ \A r \in after :
          \/ \E q \in before : r = q \/ r = Marked(q)
          \/ pc = "stage" /\ ~r.posted /\ r.run_id = out.run_id

StagingStep ==
    /\ StagingFrame(hdrStaging, hdrStaging')
    /\ StagingFrame(lineStaging, lineStaging')

\* C27: a successful post_to_ledger sets posted=true on exactly the staging header
\* and line rows that carry the run_id of the headers it was given; the rows of
\* every other run keep their posted flag and all other fields, and no step sets
\* posted back to false or changes a staging row in any other way.
C27_MarkScopedByRun == [][StagingStep]_vars

\* a run was posted while the staging rows of another run, not posted, were there
C27_Witness ==
    /\ pc \in {"snapshot", "done"}
    /\ \E h \in hdrStaging, g \in hdrStaging, l \in lineStaging :
          /\ h.run_id = out.run_id
          /\ h.posted
          /\ g.run_id # out.run_id
          /\ ~g.posted
          /\ l.run_id = g.run_id
          /\ ~l.posted

\* the staging lines of the run of worker w
StagedLinesOfRun(w) == {l \in lineStaging : l.run_id = workers[w].out.run_id}

\* C28: after a successful post_to_ledger each journal line given to it has exactly
\* one ledger line, attached to the ledger header this call inserted for the
\* line's je_number: the join against the header map of the period neither
\* duplicates nor drops a line, and no staging line is marked posted without its
\* ledger line.
C28_JoinIsExact ==
    \A w \in Workers :
        workers[w].pc = "done" =>
            LET o == workers[w].out
                wrote == workers[w].wrote
            IN  /\ \A l \in o.lines :
                      LET mine == {x \in wrote.lines :
                                     /\ Carries(x, l)
                                     /\ \E h \in ledgerHdr :
                                           h.je_id = x.je_id /\ h.je_number = l.je_number}
                      IN  /\ Cardinality(mine) = 1
                          /\ \A x \in mine : \E h \in wrote.hdrs : h.je_id = x.je_id
                /\ Cardinality(wrote.lines) = Cardinality(o.lines)
                /\ \A l \in StagedLinesOfRun(w) :
                      l.posted =>
                         \E x \in ledgerLine, h \in ledgerHdr :
                             /\ Carries(x, l)
                             /\ h.je_id = x.je_id
                             /\ h.je_number = l.je_number
                             /\ h.run_id = l.run_id

\* C29: every header expand_transactions emits references the template that
\* load_active_template selects for the header's own transaction (its txn_type,
\* product_code, channel and value date), also in a batch that mixes products, as
\* run_pipeline loads it for a month.
C29_HeaderOfOwnTemplate ==
    out.status = "ok" =>
        \A h \in out.headers : \A r \in df_txn :
            r.source_rowid = h.source_rowid =>
                \E t \in load_active_template(tplStore, r.txn_type, r.product_code,
                                               r.channel, r.bank_value_date) :
                    /\ t.template_code = h.template_code
                    /\ t.template_version = h.template_version

\* C30: run_pipeline for a period without transactions ends without an error and
\* writes no staging, ledger or snapshot row: stage_to_db and post_to_ledger take
\* the empty frames of expand_transactions as nothing to do.
C30_EmptyPeriodCompletes ==
    (call = "run_pipeline" /\ df_txn = {} /\ out # NoOut) =>
        /\ pc # "failed"
        /\ \A x \in hdrStaging \cup lineStaging \cup ledgerHdr : x.run_id # out.run_id
        /\ <<ledgerHdr, ledgerLine>> = ledgerAtCall
        /\ SnapshotOf(period) = {}
====
